---- MODULE Spec2Model ----
(***************************************************************************)
(* Offline sale buffer and sync controller of the point-of-sale page       *)
(* (src/src/pages/Sales.tsx).                                              *)
(*                                                                         *)
(* The page is a React function component.  Its state lives in useState    *)
(* cells; its handlers are closures that read the values of the render     *)
(* that created them.  JavaScript runs every handler to its next await, so *)
(* one action of this model is one such run: an event handler up to its    *)
(* first await, or the continuation of an await up to the next one.        *)
(*                                                                         *)
(* The window listener for the online/offline events is registered by the  *)
(* effect at Sales.tsx:156-178, which React runs after a render.  Between  *)
(* a setState made outside a React event (in a listener or after an await) *)
(* and the next render the registered listener still holds the closure of  *)
(* the previous render; lsnIsSyncing is the isSyncing that closure reads.  *)
(* The user acts on the page as rendered: a click is taken when the render *)
(* is up to date, so its handler reads the current state.                  *)
(*                                                                         *)
(* The buffer operations saveSaleOffline, getOfflineSales and              *)
(* deleteSyncedSale are imported from '@/utils/offlineUtils'               *)
(* (Sales.tsx:24), which is not among the source files; they are modelled  *)
(* from section 4.1 of the specification.                                  *)
(***************************************************************************)
EXTENDS Integers, Sequences, FiniteSets, TLC

\* ---------------------------------------------------------------- bounds
\* Number of distinct values Date.now() yields to proceedToPayment.
MaxBills == 2
\* Sync passes that may be in flight together.
MaxPasses == 2
\* completeSale calls that may be in flight together.
MaxSales == 1
\* completeSale calls in one run.
MaxCheckouts == 2
\* Rows counted per billId in the remote sales table (the count saturates).
MaxCommits == 2
\* Success notifications counted per billId (the count saturates).
MaxNotes == 2
\* Pending "initial check" reads of the effect (Sales.tsx:171).
MaxChecks == 1
\* Units in stock of the one sellable inventory item.
StockQty == 1
\* completeSale calls in one run of the sessions checked for progress.
LiveCheckouts == 1
\* completeSale calls made, and in flight at once, in the sessions that follow
\* a checkout repeated from the reopened payment dialog.
DeepCheckouts == 3
DeepSales == 2
DeepPasses == 1

\* The accounts: 1 an administrator, 2 a staff member, 3 a customer.
MaxUsers == 3

BillIds == 1..MaxBills
Phones == {"", "98765"}
\* The payment method is carried in the bill and read by no handler.
Methods == {"cash"}

VARIABLES
    \* --- environment
    online,            \* navigator.onLine
    storageUp,         \* the local store is available
    offlineSales,      \* the buffer: sequence of bills, one per billId
    remote,            \* rows of the remote sales table, counted per billId
    inventoryItems,    \* the fetched inventory (fixed)
    clock,             \* Date.now(), as the number of ids handed out
    \* --- React state of the Sales component (Sales.tsx:54-67)
    cart, customer, dialogs, completedBill, paymentBillId,
    isOffline, isSyncing, pendingSaleCount,
    \* --- closures and tasks
    mounted,           \* the effect has run: the listeners are registered
    lsnIsSyncing,      \* isSyncing as read by the registered listener
    stale,             \* the component state has changed since the last render
    checks,            \* pending reads of the effect's initial check
    passes,            \* the sync passes in flight (syncOfflineSales calls)
    sales,             \* the completeSale calls in flight
    \* --- observation
    toast,             \* the checkout or sync-result notification shown by
                       \* the last step ("none": no such notification)
    checkouts,         \* completeSale calls made so far
    carried,           \* the billIds those calls have carried
    notified,          \* per billId: times counted in a 'Sync Complete' toast
    stockCalls,        \* the decrement_stock calls made by the last step
    \* --- AuthProvider and the router (AuthContext.tsx, App.tsx)
    storedSession,     \* the user of the session the auth client holds (0: none)
    user,              \* useState user (0: null)
    profile,           \* useState profile
    loading,           \* useState loading
    getSessionPending, \* the getSession promise of the mount effect is pending
    userChanged,       \* user has changed since the profile effect last ran
    fetching,          \* the user whose profile fetch is in flight and active
    path,              \* the location of the router
    view,              \* what the last render shows
    authMounted,       \* the application has been rendered once
    authStale          \* auth state or location changed since the last render

envVars == <<online, storageUp, offlineSales, remote, inventoryItems, clock>>
uiVars == <<cart, customer, dialogs, completedBill, paymentBillId>>
syncVars == <<isOffline, isSyncing, pendingSaleCount>>
taskVars == <<mounted, lsnIsSyncing, checks, passes, sales>>
reactState == <<cart, customer, dialogs, completedBill, paymentBillId,
                isOffline, isSyncing, pendingSaleCount>>
obsVars == <<toast, notified, checkouts, carried, stockCalls>>
authVars == <<storedSession, user, profile, loading, getSessionPending, userChanged,
              fetching, path, view, authMounted, authStale>>
vars == <<envVars, uiVars, syncVars, taskVars, stale, obsVars, authVars>>

\* ------------------------------------------------------------- helpers
\* React schedules a render when a setState has changed the state.
Touch == stale' = (stale \/ reactState' # reactState)

Min(a, b) == IF a < b THEN a ELSE b

RemoveAt(s, k) == [j \in 1..(Len(s) - 1) |-> IF j < k THEN s[j] ELSE s[j + 1]]

BillIdsOf(s) == {s[j].billId : j \in 1..Len(s)}

\* interface Customer (Sales.tsx:29); only the phone is read by the checks.
NoCustomer == [phone |-> ""]

NoDialogs == [payment |-> FALSE, success |-> FALSE]

NoBill == [billId |-> 0, items |-> <<>>, customer |-> NoCustomer, paymentMethod |-> "none"]

\* The inventory the page has fetched: one sellable item, one unavailable
\* item and one item out of stock.
InventoryA ==
    << [id |-> 1, quantity |-> StockQty, is_available |-> TRUE],
       [id |-> 2, quantity |-> 1, is_available |-> FALSE],
       [id |-> 3, quantity |-> 0, is_available |-> TRUE] >>

ItemIds == {1, 2, 3}

\* The stock of the first item of the inventory of the cart runs.
CartStock == 2

\* An inventory with several sellable items of different stock, an
\* unavailable item with stock and an available item without.
InventoryCart ==
    << [id |-> 1, quantity |-> CartStock, is_available |-> TRUE],
       [id |-> 2, quantity |-> 1, is_available |-> FALSE],
       [id |-> 3, quantity |-> 0, is_available |-> TRUE],
       [id |-> 4, quantity |-> CartStock + 1, is_available |-> TRUE],
       [id |-> 5, quantity |-> 1, is_available |-> TRUE] >>

CartItemIds == {1, 2, 3, 4, 5}

\* -------------------------------------------------- the offline buffer
\* save(transaction): insert keyed by billId, overwriting a record of the
\* same billId in place.
\* A faulty variant of Save: the record is appended whatever the buffer holds.
SaveAppends(buf, bill) == Append(buf, bill)

Save(buf, bill) ==
    IF bill.billId \in BillIdsOf(buf)
    THEN [j \in 1..Len(buf) |-> IF buf[j].billId = bill.billId THEN bill ELSE buf[j]]
    ELSE Append(buf, bill)

\* A faulty variant of Remove: when the id is absent the oldest record goes.
RemoveOrOldest(buf, id) ==
    IF id \in BillIdsOf(buf) THEN SelectSeq(buf, LAMBDA r : r.billId # id)
    ELSE IF buf = <<>> THEN buf ELSE Tail(buf)

\* remove(billId): delete exactly that record; a no-op when it is absent.
Remove(buf, id) == SelectSeq(buf, LAMBDA r : r.billId # id)

\* listPending(): the buffered transactions in insertion order; degrades to
\* the empty list when the store is unavailable.
getOfflineSales == IF storageUp THEN offlineSales ELSE <<>>

\* deleteSyncedSale(billId): remove; degrades to a no-op when the store is
\* unavailable.
deleteSyncedSale(id) == IF storageUp THEN Remove(offlineSales, id) ELSE offlineSales

\* ------------------------------------------------- the remote mutation
\* The useMutation observer follows the mutation of its latest mutateAsync
\* call; isPending is that mutation being in flight (field cur).
ClearCur(s) == [j \in 1..Len(s) |-> [s[j] EXCEPT !.cur = FALSE]]

IsPending ==
    \/ \E j \in 1..Len(passes) : passes[j].cur /\ passes[j].pc = "commit"
    \/ \E j \in 1..Len(sales) : sales[j].cur /\ sales[j].pc = "commit"

\* A successful insert into the remote sales table (Sales.tsx:99-107): the
\* insert carries no uniqueness key, every success adds a row.
InsertSale(id) == [remote EXCEPT ![id] = Min(@ + 1, MaxCommits)]

\* ----------------------------------------------------- sync controller
\* A pass: its position, its snapshot pendingSales, the index i of the record
\* in hand, successCount; okIds are the billIds successCount has counted,
\* warn tells that the commit of the record in hand logged a stock warning
\* (Sales.tsx:114), added that a sale was saved after the snapshot was taken;
\* committed counts the commits of the pass that have resolved, reported is
\* the number shown by its 'Sync Complete' toast (0: no toast).
NewPass == [pc |-> "list", snap |-> <<>>, i |-> 0, successCount |-> 0,
            okIds |-> {}, warn |-> FALSE, added |-> FALSE, cur |-> FALSE,
            committed |-> 0, reported |-> 0]

\* syncOfflineSales up to its first await (Sales.tsx:124-127), called from
\* a closure that reads isSyncing as seenSyncing.
syncOfflineSales(seenSyncing) ==
    IF seenSyncing
    THEN UNCHANGED <<isSyncing, passes>>
    ELSE /\ Len(passes) < MaxPasses
         /\ isSyncing' = TRUE
         /\ passes' = Append(passes, NewPass)

\* A faulty variant of Render: the effect registers the listeners and starts
\* the initial check but does not call syncOfflineSales.
RenderNoSync ==
    /\ ~mounted \/ stale
    /\ checks < MaxChecks
    /\ mounted' = TRUE
    /\ lsnIsSyncing' = isSyncing
    /\ checks' = checks + 1
    /\ stale' = FALSE
    /\ toast' = "none"
    /\ UNCHANGED <<envVars, uiVars, syncVars, passes, sales, notified, checkouts, carried, authVars>>
    /\ stockCalls' = <<>>

\* A render and the effect of Sales.tsx:156-178 that React runs after it.
\* The effect depends on syncOfflineSales, which depends on isSyncing and on
\* processSaleMutation (Sales.tsx:154), the object useMutation builds anew
\* on every render: the effect runs after every render.  It registers the
\* listeners of that render, starts the initial check and, when online,
\* calls syncOfflineSales.
Render ==
    /\ ~mounted \/ stale
    /\ checks < MaxChecks
    /\ mounted' = TRUE
    /\ lsnIsSyncing' = isSyncing
    /\ checks' = checks + 1
    /\ IF online THEN syncOfflineSales(isSyncing) ELSE UNCHANGED <<isSyncing, passes>>
    /\ stale' = (isSyncing' # isSyncing)
    /\ toast' = "none"
    /\ UNCHANGED <<envVars, uiVars, isOffline, pendingSaleCount, sales, notified, checkouts, carried, authVars>>
    /\ stockCalls' = <<>>

\* The initial check's read resolves (Sales.tsx:171).
InitialCheckDone ==
    /\ checks > 0
    /\ checks' = checks - 1
    /\ pendingSaleCount' = Len(getOfflineSales)
    /\ toast' = "none"
    /\ UNCHANGED <<envVars, uiVars, isOffline, isSyncing, mounted, lsnIsSyncing,
                   passes, sales, notified, checkouts, carried, authVars>>
    /\ stockCalls' = <<>>
    /\ Touch

\* The browser goes online: updateOnlineStatus (Sales.tsx:157-161) of the
\* registered listener.
GoOnline ==
    /\ ~online
    /\ online' = TRUE
    /\ IF mounted
       THEN /\ isOffline' = FALSE
            /\ toast' = "none"
            /\ syncOfflineSales(lsnIsSyncing)
       ELSE /\ toast' = "none"
            /\ UNCHANGED <<isOffline, isSyncing, passes>>
    /\ UNCHANGED <<storageUp, offlineSales, remote, inventoryItems, clock, uiVars,
                   pendingSaleCount, mounted, lsnIsSyncing, checks, sales, notified, checkouts, carried, authVars>>
    /\ stockCalls' = <<>>
    /\ Touch

\* A faulty variant of GoOffline: going offline cancels the passes in flight.
GoOfflineCancels ==
    /\ online
    /\ online' = FALSE
    /\ toast' = "none"
    /\ IF mounted
       THEN isOffline' = TRUE /\ isSyncing' = FALSE /\ passes' = <<>>
       ELSE UNCHANGED <<isOffline, isSyncing, passes>>
    /\ UNCHANGED <<storageUp, offlineSales, remote, inventoryItems, clock, uiVars,
                   pendingSaleCount, mounted, lsnIsSyncing, checks, sales, notified,
                   checkouts, carried, authVars>>
    /\ stockCalls' = <<>>
    /\ Touch

\* The browser goes offline: updateOnlineStatus (Sales.tsx:157-164).
GoOffline ==
    /\ online
    /\ online' = FALSE
    /\ IF mounted
       THEN isOffline' = TRUE /\ toast' = "none"
       ELSE toast' = "none" /\ UNCHANGED isOffline
    /\ UNCHANGED <<storageUp, offlineSales, remote, inventoryItems, clock, uiVars,
                   isSyncing, pendingSaleCount, taskVars, notified, checkouts, carried, authVars>>
    /\ stockCalls' = <<>>
    /\ Touch

\* The pass's first read resolves (Sales.tsx:127-139): the snapshot is
\* taken; an empty snapshot ends the pass, otherwise the first commit is
\* called.
PassList(k) ==
    /\ k \in 1..Len(passes)
    /\ passes[k].pc = "list"
    /\ LET snap == getOfflineSales IN
        /\ pendingSaleCount' = Len(snap)
        /\ IF Len(snap) = 0
           THEN /\ isSyncing' = FALSE
                /\ passes' = RemoveAt(passes, k)
                /\ toast' = "none"
                /\ UNCHANGED sales
           ELSE /\ passes' = [ClearCur(passes) EXCEPT ![k] =
                        [passes[k] EXCEPT !.pc = "commit", !.snap = snap, !.i = 1,
                                          !.cur = TRUE]]
                /\ sales' = ClearCur(sales)
                /\ toast' = "none"
                /\ UNCHANGED isSyncing
    /\ UNCHANGED <<envVars, uiVars, isOffline, mounted, lsnIsSyncing, checks, notified, checkouts, carried, authVars>>
    /\ stockCalls' = <<>>
    /\ Touch

\* The loop of Sales.tsx:137-149 after record i has been handled: the next
\* commit is called, or the loop ends, the 'Sync Complete' toast is shown
\* when successCount > 0 and the closing read is called.
PassAdvance(k, p) ==
    IF p.i < Len(p.snap)
    THEN /\ passes' = [ClearCur(passes) EXCEPT ![k] =
                 [p EXCEPT !.pc = "commit", !.i = p.i + 1, !.cur = TRUE]]
         /\ sales' = ClearCur(sales)
         /\ toast' = "none"
         /\ UNCHANGED notified
    ELSE /\ passes' = [passes EXCEPT ![k] =
                 [p EXCEPT !.pc = "recount", !.cur = FALSE,
                           !.reported = IF p.successCount > 0 THEN p.successCount ELSE 0]]
         /\ UNCHANGED sales
         /\ IF p.successCount > 0
            THEN /\ toast' = "Sync Complete"
                 /\ notified' = [b \in BillIds |->
                        IF b \in p.okIds THEN Min(notified[b] + 1, MaxNotes) ELSE notified[b]]
            ELSE /\ toast' = "none"
                 /\ UNCHANGED notified

\* The loop over the lines of a bill whose row has been inserted
\* (Sales.tsx:109-115): one decrement_stock call per line, in the order of
\* the lines, with the id and the quantity of the line; the error of a call
\* is logged and the loop goes on.
DecrementStock(bill) ==
    [j \in 1..Len(bill.items) |->
        [item_id |-> bill.items[j].id, decrement_quantity |-> bill.items[j].cart_quantity]]

\* The outcomes of the stock decrements of a bill (Sales.tsx:109-115): all
\* succeed (TRUE) or one fails (FALSE); a bill without lines makes no call.
StockOutcomes(bill) == IF bill.items = <<>> THEN {TRUE} ELSE BOOLEAN

\* A faulty variant of PassCommitOk: a failed stock decrement makes the
\* mutation reject after the row has been inserted.
PassCommitOkStrict(k) ==
    /\ k \in 1..Len(passes)
    /\ passes[k].pc = "commit"
    /\ online
    /\ LET bill == passes[k].snap[passes[k].i] IN
        /\ remote' = InsertSale(bill.billId)
        /\ \E stockOk \in StockOutcomes(bill) :
             IF stockOk
             THEN /\ passes' = [passes EXCEPT ![k] =
                         [@ EXCEPT !.pc = "delete", !.cur = FALSE, !.committed = @ + 1]]
                  /\ toast' = "none"
                  /\ UNCHANGED <<sales, notified>>
             ELSE PassAdvance(k, [passes[k] EXCEPT !.cur = FALSE, !.warn = TRUE,
                                                   !.committed = @ + 1])
    /\ UNCHANGED <<online, storageUp, offlineSales, inventoryItems, clock, uiVars,
                   syncVars, mounted, lsnIsSyncing, checks, checkouts, carried, authVars>>
    /\ stockCalls' = DecrementStock(passes[k].snap[passes[k].i])
    /\ Touch

\* mutateAsync of record i resolves (Sales.tsx:139-140): the row has been
\* inserted, a failed stock decrement has only logged a warning
\* (Sales.tsx:97-116), and deleteSyncedSale is called.
PassCommitOk(k) ==
    /\ k \in 1..Len(passes)
    /\ passes[k].pc = "commit"
    /\ online
    /\ LET bill == passes[k].snap[passes[k].i] IN
        /\ remote' = InsertSale(bill.billId)
        /\ \E stockOk \in StockOutcomes(bill) :
             passes' = [passes EXCEPT ![k] =
                 [@ EXCEPT !.pc = "delete", !.cur = FALSE,
                           !.warn = ~stockOk, !.committed = @ + 1]]
    /\ toast' = "none"
    /\ UNCHANGED <<online, storageUp, offlineSales, inventoryItems, clock, uiVars,
                   syncVars, mounted, lsnIsSyncing, checks, sales, notified, checkouts, carried, authVars>>
    /\ stockCalls' = DecrementStock(passes[k].snap[passes[k].i])
    /\ Touch

\* A faulty variant of PassCommitFail: the rejection leaves syncOfflineSales,
\* which ends without clearing the flag.
PassCommitFailEscapes(k) ==
    /\ k \in 1..Len(passes)
    /\ passes[k].pc = "commit"
    /\ passes' = RemoveAt(passes, k)
    /\ toast' = "none"
    /\ UNCHANGED <<envVars, uiVars, syncVars, mounted, lsnIsSyncing, checks, sales,
                   notified, checkouts, carried, authVars>>
    /\ stockCalls' = <<>>
    /\ Touch

\* A faulty variant of PassCommitFail: the record is removed from the buffer
\* although its commit failed.
PassCommitFailDrops(k) ==
    /\ k \in 1..Len(passes)
    /\ passes[k].pc = "commit"
    /\ offlineSales' = deleteSyncedSale(passes[k].snap[passes[k].i].billId)
    /\ PassAdvance(k, [passes[k] EXCEPT !.cur = FALSE])
    /\ UNCHANGED <<online, storageUp, remote, inventoryItems, clock, uiVars, syncVars,
                   mounted, lsnIsSyncing, checks, checkouts, carried, authVars>>
    /\ stockCalls' = <<>>
    /\ Touch

\* A faulty variant of PassCommitFail: the first failed commit ends the loop.
PassCommitFailAborts(k) ==
    /\ k \in 1..Len(passes)
    /\ passes[k].pc = "commit"
    /\ PassAdvance(k, [passes[k] EXCEPT !.cur = FALSE, !.i = Len(passes[k].snap)])
    /\ UNCHANGED <<envVars, uiVars, syncVars, mounted, lsnIsSyncing, checks, checkouts, carried, authVars>>
    /\ stockCalls' = <<>>
    /\ Touch

\* A faulty variant of PassCommitFail: the failed record is counted as synced.
PassCommitFailCounts(k) ==
    /\ k \in 1..Len(passes)
    /\ passes[k].pc = "commit"
    /\ PassAdvance(k, [passes[k] EXCEPT !.cur = FALSE, !.successCount = @ + 1])
    /\ UNCHANGED <<envVars, uiVars, syncVars, mounted, lsnIsSyncing, checks, checkouts,
                   carried, authVars>>
    /\ stockCalls' = <<>>
    /\ Touch

\* A faulty variant of PassCommitFail: the stock of the lines is decremented
\* although the insert has failed.
PassCommitFailDecrements(k) ==
    /\ k \in 1..Len(passes)
    /\ passes[k].pc = "commit"
    /\ PassAdvance(k, [passes[k] EXCEPT !.cur = FALSE])
    /\ UNCHANGED <<envVars, uiVars, syncVars, mounted, lsnIsSyncing, checks, checkouts, carried, authVars>>
    /\ stockCalls' = DecrementStock(passes[k].snap[passes[k].i])
    /\ Touch

\* mutateAsync of record i rejects (Sales.tsx:142-144): the error is
\* logged and the loop goes on.
PassCommitFail(k) ==
    /\ k \in 1..Len(passes)
    /\ passes[k].pc = "commit"
    /\ PassAdvance(k, [passes[k] EXCEPT !.cur = FALSE])
    /\ UNCHANGED <<envVars, uiVars, syncVars, mounted, lsnIsSyncing, checks, checkouts, carried, authVars>>
    /\ stockCalls' = <<>>
    /\ Touch

\* deleteSyncedSale resolves (Sales.tsx:140-141): the record leaves the
\* buffer, successCount is incremented and the loop goes on.
PassDelete(k) ==
    /\ k \in 1..Len(passes)
    /\ passes[k].pc = "delete"
    /\ LET id == passes[k].snap[passes[k].i].billId IN
        /\ offlineSales' = deleteSyncedSale(id)
        /\ PassAdvance(k, [passes[k] EXCEPT !.successCount = @ + 1,
                                            !.okIds = @ \cup {id},
                                            !.warn = FALSE])
    /\ UNCHANGED <<online, storageUp, remote, inventoryItems, clock, uiVars,
                   syncVars, mounted, lsnIsSyncing, checks, checkouts, carried, authVars>>
    /\ stockCalls' = <<>>
    /\ Touch

\* A faulty variant of PassRecount: the pending count is worked out from the
\* snapshot and successCount instead of being read from the buffer.
PassRecountFromSnapshot(k) ==
    /\ k \in 1..Len(passes)
    /\ passes[k].pc = "recount"
    /\ pendingSaleCount' = Len(passes[k].snap) - passes[k].successCount
    /\ isSyncing' = FALSE
    /\ passes' = RemoveAt(passes, k)
    /\ toast' = "none"
    /\ UNCHANGED <<envVars, uiVars, isOffline, mounted, lsnIsSyncing, checks, sales,
                   notified, checkouts, carried, authVars>>
    /\ stockCalls' = <<>>
    /\ Touch

\* The closing read resolves (Sales.tsx:151-153): the pending count is set
\* from the buffer and the pass ends.
PassRecount(k) ==
    /\ k \in 1..Len(passes)
    /\ passes[k].pc = "recount"
    /\ pendingSaleCount' = Len(getOfflineSales)
    /\ isSyncing' = FALSE
    /\ passes' = RemoveAt(passes, k)
    /\ toast' = "none"
    /\ UNCHANGED <<envVars, uiVars, isOffline, mounted, lsnIsSyncing, checks, sales,
                   notified, checkouts, carried, authVars>>
    /\ stockCalls' = <<>>
    /\ Touch

\* ------------------------------------------------------------ checkout
\* The page shows the current state: the user's clicks run the handlers of
\* the latest render.
Rendered == mounted /\ ~stale

\* The dialogs are modal: the page behind them takes no input.
PageActive == Rendered /\ ~dialogs.payment /\ ~dialogs.success

InCart(itemId) == \E j \in 1..Len(cart) : cart[j].id = itemId

CartQuantity(itemId) ==
    IF InCart(itemId)
    THEN (CHOOSE l \in {cart[j] : j \in 1..Len(cart)} : l.id = itemId).cart_quantity
    ELSE 0

\* addToCart without the check of the stock left.
addToCartCallNoStock(itemId) ==
    /\ PageActive
    /\ \E n \in 1..Len(inventoryItems) :
        LET itemToAdd == inventoryItems[n] IN
        /\ itemToAdd.id = itemId
        /\ IF ~itemToAdd.is_available
           THEN /\ toast' = "none"
                /\ UNCHANGED cart
           ELSE /\ toast' = "none"
                /\ cart' = IF InCart(itemId)
                           THEN [j \in 1..Len(cart) |->
                                   IF cart[j].id = itemId
                                   THEN [cart[j] EXCEPT !.cart_quantity = Min(@ + 1, CartStock + 2)]
                                   ELSE cart[j]]
                           ELSE Append(cart, [id |-> itemId, cart_quantity |-> 1])
    /\ UNCHANGED <<envVars, customer, dialogs, completedBill, paymentBillId,
                   syncVars, taskVars, notified, checkouts, carried, authVars>>
    /\ stockCalls' = <<>>
    /\ Touch

\* addToCart (Sales.tsx:193-215), called with the id of any item of the
\* inventory.
addToCartCall(itemId) ==
    /\ PageActive
    /\ \E n \in 1..Len(inventoryItems) :
        LET itemToAdd == inventoryItems[n] IN
        /\ itemToAdd.id = itemId
        /\ IF ~itemToAdd.is_available
           THEN /\ toast' = "none"
                /\ UNCHANGED cart
           ELSE IF itemToAdd.quantity - CartQuantity(itemId) <= 0
           THEN /\ toast' = "none"
                /\ UNCHANGED cart
           ELSE /\ toast' = "none"
                /\ cart' = IF InCart(itemId)
                           THEN [j \in 1..Len(cart) |->
                                   IF cart[j].id = itemId
                                   THEN [cart[j] EXCEPT !.cart_quantity = @ + 1]
                                   ELSE cart[j]]
                           ELSE Append(cart, [id |-> itemId, cart_quantity |-> 1])
    /\ UNCHANGED <<envVars, customer, dialogs, completedBill, paymentBillId,
                   syncVars, taskVars, notified, checkouts, carried, authVars>>
    /\ stockCalls' = <<>>
    /\ Touch

\* A click on an inventory card (Sales.tsx:372-374): the card of an item
\* that is unavailable or out of stock takes no click.
addToCart(itemId) ==
    /\ \E n \in 1..Len(inventoryItems) :
        /\ inventoryItems[n].id = itemId
        /\ inventoryItems[n].is_available /\ inventoryItems[n].quantity > 0
    /\ addToCartCall(itemId)

\* The minus and plus buttons of a cart line (Sales.tsx:405) and
\* updateCartQuantity (Sales.tsx:217-226).
updateCartQuantity(itemId, newQuantity) ==
    /\ PageActive
    /\ InCart(itemId)
    /\ newQuantity \in {CartQuantity(itemId) - 1, CartQuantity(itemId) + 1}
    /\ LET found == {n \in 1..Len(inventoryItems) : inventoryItems[n].id = itemId} IN
       IF newQuantity <= 0
       THEN /\ cart' = SelectSeq(cart, LAMBDA l : l.id # itemId)
            /\ toast' = "none"
       ELSE IF \E n \in found : newQuantity > inventoryItems[n].quantity
       THEN /\ toast' = "none"
            /\ UNCHANGED cart
       ELSE /\ cart' = [j \in 1..Len(cart) |->
                          IF cart[j].id = itemId
                          THEN [cart[j] EXCEPT !.cart_quantity = newQuantity]
                          ELSE cart[j]]
            /\ toast' = "none"
    /\ UNCHANGED <<envVars, customer, dialogs, completedBill, paymentBillId,
                   syncVars, taskVars, notified, checkouts, carried, authVars>>
    /\ stockCalls' = <<>>
    /\ Touch

\* Typing into the phone field (Sales.tsx:413).
setCustomer(phone) ==
    /\ PageActive
    /\ phone # customer.phone
    /\ customer' = [customer EXCEPT !.phone = phone]
    /\ toast' = "none"
    /\ UNCHANGED <<envVars, cart, dialogs, completedBill, paymentBillId,
                   syncVars, taskVars, notified, checkouts, carried, authVars>>
    /\ stockCalls' = <<>>
    /\ Touch

\* The 'Proceed to Checkout' button, rendered for a non-empty cart
\* (Sales.tsx:410), and proceedToPayment (Sales.tsx:228-240).
proceedToPayment ==
    /\ PageActive
    /\ Len(cart) > 0
    /\ IF customer.phone = ""
       THEN /\ toast' = "none"
            /\ UNCHANGED <<clock, paymentBillId, dialogs>>
       ELSE /\ clock < MaxBills
            /\ clock' = clock + 1
            /\ paymentBillId' = clock + 1
            /\ dialogs' = [dialogs EXCEPT !.payment = TRUE]
            /\ toast' = "none"
    /\ UNCHANGED <<online, storageUp, offlineSales, remote, inventoryItems, cart,
                   customer, completedBill, syncVars, taskVars, notified, checkouts, carried, authVars>>
    /\ stockCalls' = <<>>
    /\ Touch

\* The bill built by completeSale (Sales.tsx:243-254).
BillData(paymentMethod) ==
    [billId |-> paymentBillId, items |-> cart, customer |-> customer,
     paymentMethod |-> paymentMethod]

\* A confirm button of the payment dialog (Sales.tsx:431, 435) and
\* completeSale up to its await (Sales.tsx:242-265).  dlg is the dialogs
\* value of the closure, read again by the catch block.
completeSaleUpTo(paymentMethod, maxSales, maxCheckouts) ==
    /\ Rendered
    /\ dialogs.payment
    /\ ~(IsPending /\ ~isOffline)
    /\ Len(sales) < maxSales
    /\ checkouts < maxCheckouts
    /\ checkouts' = checkouts + 1
    /\ carried' = carried \cup {paymentBillId}
    /\ stockCalls' = <<>>
    /\ completedBill' = BillData(paymentMethod)
    /\ dialogs' = [payment |-> FALSE, success |-> TRUE]
    /\ IF isOffline
       THEN /\ sales' = Append(sales, [pc |-> "save", bill |-> BillData(paymentMethod),
                                       dlg |-> dialogs, cur |-> FALSE])
            /\ UNCHANGED passes
       ELSE /\ sales' = Append(ClearCur(sales),
                               [pc |-> "commit", bill |-> BillData(paymentMethod),
                                dlg |-> dialogs, cur |-> TRUE])
            /\ passes' = ClearCur(passes)
    /\ toast' = "none"
    /\ UNCHANGED <<envVars, cart, customer, paymentBillId, syncVars, mounted,
                   lsnIsSyncing, checks, notified, authVars>>
    /\ Touch

completeSale(paymentMethod) == completeSaleUpTo(paymentMethod, MaxSales, MaxCheckouts)

\* saveSaleOffline resolves (Sales.tsx:260-262), or rejects when the store
\* is unavailable: the rejection leaves completeSale, which has no handler
\* for it.
SaleSaveDone(k) ==
    /\ k \in 1..Len(sales)
    /\ sales[k].pc = "save"
    /\ sales' = RemoveAt(sales, k)
    /\ IF storageUp
       THEN /\ offlineSales' = Save(offlineSales, sales[k].bill)
            /\ pendingSaleCount' = pendingSaleCount + 1
            /\ passes' = [j \in 1..Len(passes) |->
                            IF passes[j].pc = "list" THEN passes[j]
                            ELSE [passes[j] EXCEPT !.added = TRUE]]
            /\ toast' = "Sale Saved Offline"
       ELSE /\ toast' = "none"
            /\ UNCHANGED <<offlineSales, pendingSaleCount, passes>>
    /\ UNCHANGED <<online, storageUp, remote, inventoryItems, clock, uiVars, isOffline,
                   isSyncing, mounted, lsnIsSyncing, checks, notified, checkouts, carried, authVars>>
    /\ stockCalls' = <<>>
    /\ Touch

\* A faulty variant of SaleCommitOk: the committed sale is also written to
\* the buffer.
SaleCommitOkBuffers(k) ==
    /\ k \in 1..Len(sales)
    /\ sales[k].pc = "commit"
    /\ online
    /\ remote' = InsertSale(sales[k].bill.billId)
    /\ offlineSales' = Save(offlineSales, sales[k].bill)
    /\ sales' = RemoveAt(sales, k)
    /\ toast' = "none"
    /\ UNCHANGED <<online, storageUp, inventoryItems, clock, uiVars,
                   syncVars, mounted, lsnIsSyncing, checks, passes, notified, checkouts, carried, authVars>>
    /\ stockCalls' = DecrementStock(sales[k].bill)
    /\ Touch

\* mutateAsync of a direct checkout resolves (Sales.tsx:265); the outcome of
\* the stock decrements is logged only.
SaleCommitOk(k) ==
    /\ k \in 1..Len(sales)
    /\ sales[k].pc = "commit"
    /\ online
    /\ remote' = InsertSale(sales[k].bill.billId)
    /\ sales' = RemoveAt(sales, k)
    /\ toast' = "none"
    /\ UNCHANGED <<online, storageUp, offlineSales, inventoryItems, clock, uiVars,
                   syncVars, mounted, lsnIsSyncing, checks, passes, notified, checkouts, carried, authVars>>
    /\ stockCalls' = DecrementStock(sales[k].bill)
    /\ Touch

\* mutateAsync of a direct checkout rejects (Sales.tsx:266-269).
SaleCommitFail(k) ==
    /\ k \in 1..Len(sales)
    /\ sales[k].pc = "commit"
    /\ sales' = RemoveAt(sales, k)
    /\ toast' = "Transaction Failed"
    /\ dialogs' = [sales[k].dlg EXCEPT !.success = FALSE]
    /\ UNCHANGED <<envVars, cart, customer, completedBill, paymentBillId, syncVars,
                   mounted, lsnIsSyncing, checks, passes, notified, checkouts, carried, authVars>>
    /\ stockCalls' = <<>>
    /\ Touch

\* The payment dialog is dismissed (onOpenChange, Sales.tsx:424).
ClosePayment ==
    /\ Rendered
    /\ dialogs.payment
    /\ dialogs' = [dialogs EXCEPT !.payment = FALSE]
    /\ toast' = "none"
    /\ UNCHANGED <<envVars, cart, customer, completedBill, paymentBillId, syncVars,
                   taskVars, notified, checkouts, carried, authVars>>
    /\ stockCalls' = <<>>
    /\ Touch

\* The success dialog is dismissed (onOpenChange, Sales.tsx:441).
CloseSuccess ==
    /\ Rendered
    /\ dialogs.success
    /\ dialogs' = [dialogs EXCEPT !.success = FALSE]
    /\ toast' = "none"
    /\ UNCHANGED <<envVars, cart, customer, completedBill, paymentBillId, syncVars,
                   taskVars, notified, checkouts, carried, authVars>>
    /\ stockCalls' = <<>>
    /\ Touch

\* resetSale (Sales.tsx:273-280).
resetSale ==
    /\ cart' = <<>>
    /\ customer' = NoCustomer
    /\ completedBill' = NoBill

\* The 'Start New Sale' button of the success dialog (Sales.tsx:444).
StartNewSale ==
    /\ Rendered
    /\ dialogs.success
    /\ dialogs' = [dialogs EXCEPT !.success = FALSE]
    /\ resetSale
    /\ toast' = "none"
    /\ UNCHANGED <<envVars, paymentBillId, syncVars, taskVars, notified, checkouts, carried, authVars>>
    /\ stockCalls' = <<>>
    /\ Touch

\* ------------------------------------------------------ the environment
\* The browser tab is closed or reloaded and the page is opened again: the
\* component state is that of useState (Sales.tsx:54-67), the tasks of the
\* old page are gone, the local store and the remote table are kept.
Restart ==
    /\ mounted
    /\ cart' = <<>>
    /\ customer' = NoCustomer
    /\ dialogs' = NoDialogs
    /\ completedBill' = NoBill
    /\ paymentBillId' = 0
    /\ isOffline' = ~online
    /\ isSyncing' = FALSE
    /\ pendingSaleCount' = 0
    /\ mounted' = FALSE
    /\ lsnIsSyncing' = FALSE
    /\ checks' = 0
    /\ passes' = <<>>
    /\ sales' = <<>>
    /\ stale' = FALSE
    /\ toast' = "none"
    /\ UNCHANGED <<envVars, notified, checkouts, carried, authVars>>
    /\ stockCalls' = <<>>

\* The local store becomes unavailable (its quota is used up, the browser
\* withdraws it).
StorageFail ==
    /\ storageUp
    /\ storageUp' = FALSE
    /\ toast' = "none"
    /\ UNCHANGED <<online, offlineSales, remote, inventoryItems, clock, uiVars,
                   syncVars, taskVars, notified, checkouts, carried, authVars>>
    /\ stockCalls' = <<>>
    /\ Touch

\* ------------------------------------------- authentication and routes
Users == 1..MaxUsers
NoProfile == [id |-> 0, role |-> "none", is_staff |-> FALSE]

\* The profiles table: the row of each account.
Profiles ==
    [u \in Users |->
        [id |-> u,
         role |-> IF u \in {1, 2} THEN "admin" ELSE "customer",
         is_staff |-> (u = 2)]]

\* The routes wrapped in StrictAdminRoute (App.tsx:48-51), the route wrapped
\* in AdminRoute (App.tsx:45), the sales route (App.tsx:46) and the dashboard
\* (App.tsx:41).
StrictRoutes == {"/expense", "/AdvancedAnalytics", "/reports"}
Routes == StrictRoutes \cup {"/inventory", "/sales", "/dashboard"}
PageOf(p) ==
    CASE p = "/expense" -> "Expenses"
      [] p = "/AdvancedAnalytics" -> "Dashboard1"
      [] p = "/reports" -> "Reports"
      [] p = "/inventory" -> "Inventory"
      [] OTHER -> "Dashboard"

\* isAdmin and isStaff of the context (AuthContext.tsx:100-107).
isAdmin == profile.role = "admin"
isStaff == profile.role = "admin" /\ profile.is_staff = TRUE

\* A faulty variant of StrictAdminRoute: the staff flag is not looked at.
StrictAdminRouteLax(children) ==
    IF loading THEN "loader"
    ELSE IF ~isAdmin THEN "Navigate"
    ELSE children

\* StrictAdminRoute (StrictAdminRoute.tsx:6-26): the loader, a redirect to
\* the dashboard, or the page.
StrictAdminRoute(children) ==
    IF loading THEN "loader"
    ELSE IF ~isAdmin \/ isStaff THEN "Navigate"
    ELSE children

\* AdminRoute (AuthContext.tsx:177-196).
AdminRoute(children) ==
    IF loading THEN "loader"
    ELSE IF ~isAdmin THEN "Navigate"
    ELSE children

\* What AppContent renders at the location (App.tsx:27-68).  ProtectedRoute
\* is an outer wrapper that shows its children or withholds them; the element
\* below is what its children come to.
Element ==
    IF loading THEN "loader"
    ELSE IF path \in StrictRoutes THEN StrictAdminRoute(PageOf(path))
    ELSE IF path = "/inventory" THEN AdminRoute(PageOf(path))
    ELSE IF path = "/sales" THEN (IF isAdmin THEN "Sales" ELSE "CustomerPOSPage")
    ELSE IF isAdmin THEN "Dashboard" ELSE "CustomerDashboard"

\* The state cells of AuthProvider and the location.
authState == <<user, profile, loading, path>>
AuthTouch == authStale' = (authStale \/ authState' # authState)

\* React renders the application, <Navigate replace> moves the location, and
\* the effects of the render run: at the first render the mount effect calls
\* getSession and subscribes (AuthContext.tsx:49-68); the profile effect runs
\* at the first render and whenever user has changed (AuthContext.tsx:71-98).
AuthRender ==
    /\ ~authMounted \/ authStale
    /\ authMounted' = TRUE
    /\ view' = Element
    /\ path' = IF Element = "Navigate" THEN "/dashboard" ELSE path
    /\ getSessionPending' = (getSessionPending \/ ~authMounted)
    /\ IF ~authMounted \/ userChanged
       THEN /\ userChanged' = FALSE
            /\ IF user # 0
               THEN /\ loading' = TRUE
                    /\ fetching' = user
                    /\ UNCHANGED profile
               ELSE /\ profile' = NoProfile
                    /\ loading' = FALSE
                    /\ fetching' = 0
       ELSE UNCHANGED <<userChanged, loading, fetching, profile>>
    /\ UNCHANGED <<storedSession, user>>
    /\ authStale' = (authState' # authState)
    /\ UNCHANGED <<envVars, uiVars, syncVars, taskVars, stale, obsVars>>

\* getSession resolves (AuthContext.tsx:52-57).
GetSessionDone ==
    /\ getSessionPending
    /\ getSessionPending' = FALSE
    /\ user' = storedSession
    /\ userChanged' = (userChanged \/ user # 0 \/ storedSession # 0)
    /\ loading' = FALSE
    /\ UNCHANGED <<storedSession, profile, fetching, path, view, authMounted>>
    /\ AuthTouch
    /\ UNCHANGED <<envVars, uiVars, syncVars, taskVars, stale, obsVars>>

\* onAuthStateChange (AuthContext.tsx:59-62): u signs in, the user signs out
\* (u = 0), or the session of the signed-in user is renewed; a renewed
\* session brings a new user object.  Signing in and out are acts of the
\* user on the rendered application.
AuthStateChange(u) ==
    /\ authMounted
    /\ \/ storedSession = 0 /\ u # 0 /\ ~authStale
       \/ storedSession # 0 /\ u = 0 /\ ~authStale
       \/ storedSession # 0 /\ u = storedSession
    /\ storedSession' = u
    /\ user' = u
    /\ userChanged' = (userChanged \/ user # 0 \/ u # 0)
    /\ UNCHANGED <<profile, loading, getSessionPending, fetching, path, view,
                   authMounted>>
    /\ authStale' = (authStale \/ user # 0 \/ u # 0)
    /\ UNCHANGED <<envVars, uiVars, syncVars, taskVars, stale, obsVars>>

\* The profile fetch resolves (AuthContext.tsx:77-91), with the row or with
\* an error.
ProfileFetchDone ==
    /\ fetching # 0
    /\ \E ok \in BOOLEAN :
         profile' = IF ok THEN Profiles[fetching] ELSE NoProfile
    /\ loading' = FALSE
    /\ fetching' = 0
    /\ UNCHANGED <<storedSession, user, getSessionPending, userChanged, path, view,
                   authMounted>>
    /\ AuthTouch
    /\ UNCHANGED <<envVars, uiVars, syncVars, taskVars, stale, obsVars>>

\* The user opens a route of the application.
OpenRoute(p) ==
    /\ authMounted
    /\ ~authStale
    /\ p # path
    /\ path' = p
    /\ UNCHANGED <<storedSession, user, profile, loading, getSessionPending,
                   userChanged, fetching, view, authMounted>>
    /\ AuthTouch
    /\ UNCHANGED <<envVars, uiVars, syncVars, taskVars, stale, obsVars>>

\* --------------------------------------------------------- specification
InitSales ==
    /\ online \in BOOLEAN
    /\ storageUp = TRUE
    /\ offlineSales = <<>>
    /\ remote = [b \in BillIds |-> 0]
    /\ inventoryItems = InventoryA
    /\ clock = 0
    /\ cart = <<>>
    /\ customer = NoCustomer
    /\ dialogs = NoDialogs
    /\ completedBill = NoBill
    /\ paymentBillId = 0
    /\ isOffline = ~online
    /\ isSyncing = FALSE
    /\ pendingSaleCount = 0
    /\ mounted = FALSE
    /\ lsnIsSyncing = FALSE
    /\ checks = 0
    /\ passes = <<>>
    /\ sales = <<>>
    /\ stale = FALSE
    /\ toast = "none"
    /\ notified = [b \in BillIds |-> 0]
    /\ checkouts = 0
    /\ carried = {}
    /\ stockCalls = <<>>

\* AuthProvider before its first render (AuthContext.tsx:43-46).
InitAuth ==
    /\ user = 0
    /\ profile = NoProfile
    /\ loading = TRUE
    /\ getSessionPending = FALSE
    /\ userChanged = FALSE
    /\ fetching = 0
    /\ view = "none"
    /\ authMounted = FALSE
    /\ authStale = FALSE

\* The sales page is followed with the administrator signed in, the profile
\* loaded and the sales route shown (App.tsx:29, 46).
Init ==
    /\ InitSales
    /\ storedSession = 1
    /\ user = 1
    /\ profile = Profiles[1]
    /\ loading = FALSE
    /\ getSessionPending = FALSE
    /\ userChanged = FALSE
    /\ fetching = 0
    /\ path = "/sales"
    /\ view = "Sales"
    /\ authMounted = TRUE
    /\ authStale = FALSE

\* The routes are followed with the application opened on any route, with or
\* without a stored session.
InitRoutes ==
    /\ InitSales
    /\ InitAuth
    /\ storedSession \in {0} \cup Users
    /\ path \in Routes

NextRoutes ==
    \/ AuthRender
    \/ GetSessionDone
    \/ \E u \in {0} \cup Users : AuthStateChange(u)
    \/ ProfileFetchDone
    \/ \E p \in Routes : OpenRoute(p)

SpecRoutes == InitRoutes /\ [][NextRoutes]_vars

SyncStep ==
    \E k \in 1..MaxPasses :
        \/ PassList(k)
        \/ PassCommitOk(k)
        \/ PassCommitFail(k)
        \/ PassDelete(k)
        \/ PassRecount(k)

SaleStep ==
    \E k \in 1..MaxSales :
        \/ SaleSaveDone(k)
        \/ SaleCommitOk(k)
        \/ SaleCommitFail(k)

UserStep ==
    \/ \E itemId \in ItemIds : addToCart(itemId)
    \/ \E itemId \in ItemIds, q \in 0..(StockQty + 1) : updateCartQuantity(itemId, q)
    \/ \E phone \in Phones : setCustomer(phone)
    \/ proceedToPayment
    \/ \E m \in Methods : completeSale(m)
    \/ ClosePayment
    \/ CloseSuccess
    \/ StartNewSale

Next ==
    \/ Render
    \/ InitialCheckDone
    \/ GoOnline
    \/ GoOffline
    \/ SyncStep
    \/ SaleStep
    \/ UserStep

\* One session of the page; the local store is reliable (section 4.1 of the
\* specification).
Spec == Init /\ [][Next]_vars

\* The page may be closed and opened again.
NextRestart == Next \/ Restart

SpecRestart == Init /\ [][NextRestart]_vars

\* The local store may become unavailable.
NextFault == Next \/ StorageFail

SpecFault == Init /\ [][NextFault]_vars

\* Scheduling of one session: React renders after a state change, and every
\* pending read, delete and remote call of a pass resolves.
PassResolves(k) ==
    PassList(k) \/ PassCommitOk(k) \/ PassCommitFail(k) \/ PassDelete(k) \/ PassRecount(k)

Fairness ==
    /\ WF_vars(Render)
    /\ WF_vars(InitialCheckDone)
    /\ \A k \in 1..MaxPasses : WF_vars(PassResolves(k))

\* The sessions checked for progress make at most LiveCheckouts checkouts.
LiveUserStep ==
    \/ \E itemId \in ItemIds : addToCart(itemId)
    \/ \E itemId \in ItemIds, q \in 0..(StockQty + 1) : updateCartQuantity(itemId, q)
    \/ \E phone \in Phones : setCustomer(phone)
    \/ proceedToPayment
    \/ \E m \in Methods : checkouts < LiveCheckouts /\ completeSale(m)
    \/ ClosePayment
    \/ CloseSuccess
    \/ StartNewSale

LiveNext ==
    \/ Render
    \/ InitialCheckDone
    \/ GoOnline
    \/ GoOffline
    \/ SyncStep
    \/ SaleStep
    \/ LiveUserStep

LiveSpec == Init /\ [][LiveNext]_vars /\ Fairness

\* Sessions of up to DeepCheckouts checkouts, DeepSales of them in flight and
\* DeepPasses sync passes at a time, in which the user fills the cart, pays
\* and starts the next sale.
DeepUserStep ==
    \/ \E itemId \in ItemIds : addToCart(itemId)
    \/ setCustomer("98765")
    \/ proceedToPayment
    \/ \E m \in Methods : completeSaleUpTo(m, DeepSales, DeepCheckouts)
    \/ StartNewSale

DeepSaleStep ==
    \E k \in 1..DeepSales :
        \/ SaleSaveDone(k)
        \/ SaleCommitOk(k)
        \/ SaleCommitFail(k)

DeepNext ==
    \/ Render /\ Len(passes') <= DeepPasses
    \/ InitialCheckDone
    \/ GoOnline /\ Len(passes') <= DeepPasses
    \/ GoOffline
    \/ SyncStep
    \/ DeepSaleStep
    \/ DeepUserStep

SpecDeep == Init /\ [][DeepNext]_vars

\* The same sessions with a local store that can become unavailable.
LiveNextFault == LiveNext \/ StorageFail

LiveSpecFault == Init /\ [][LiveNextFault]_vars /\ Fairness

\* ------------------------------------------------------------ properties
InBuffer(b) == b \in BillIdsOf(offlineSales)

\* The billIds whose commit pass k has called so far.
Attempted(k) == {passes[k].snap[j].billId : j \in 1..passes[k].i}

\* C1: over any sequence of checkouts, connectivity events and sync passes,
\* each billId is committed to the remote store at most once.
C1_CommittedAtMostOnce == \A b \in BillIds : remote[b] <= 1

\* C3: at most one sync pass is active at a time, also when a trigger
\* arrives before the in-progress flag of the running pass is visible.
C3_OnePassAtATime == Len(passes) <= 1

\* C4: within one burst of triggers each buffered record receives at most
\* one remote commit call: no two passes in flight have called the commit
\* of the same billId.
C4_OneCommitCallPerBurst ==
    \A p, q \in 1..Len(passes) :
        p # q => Attempted(p) \cap Attempted(q) = {}
\* C2: a sale saved to the offline buffer is, once connectivity has returned
\* for good and provided its remote commit does not fail for ever, at last
\* committed remotely and removed from the buffer.
CommitSucceedsAtLast == \A k \in 1..MaxPasses : SF_vars(PassCommitOk(k))

C2_EventuallySynced ==
    ((<>[]online) /\ CommitSucceedsAtLast) =>
        \A b \in BillIds : InBuffer(b) ~> (~InBuffer(b) /\ remote[b] >= 1)

\* A buffered sale has been committed by a sync pass and removed.
C2_Witness ==
    \E b \in BillIds : ~InBuffer(b) /\ remote[b] >= 1 /\ notified[b] >= 1
\* C5: a transaction saved by an offline checkout stays in the buffer, also
\* across a restart of the page, until a sync pass has committed it remotely
\* and removes it: a billId leaves the buffer only in the step in which a
\* pass, its commit of that record having succeeded, deletes it.
C5_BufferedUntilSynced ==
    [][\A b \in BillIds :
          (InBuffer(b) /\ ~(b \in BillIdsOf(offlineSales'))) =>
              /\ remote[b] >= 1
              /\ \E k \in 1..Len(passes) :
                    /\ passes[k].pc = "delete"
                    /\ passes[k].snap[passes[k].i].billId = b]_vars

\* The page has been closed with a sale in the buffer and not yet opened.
C5_Witness == ~mounted /\ offlineSales # <<>>

\* Pass k goes on after the record in hand: to the commit of the next record
\* of its snapshot, or past the last one to the closing read.
GoesOn(k) ==
    /\ Len(passes') = Len(passes)
    /\ passes'[k].snap = passes[k].snap
    /\ IF passes[k].i < Len(passes[k].snap)
       THEN passes'[k].pc = "commit" /\ passes'[k].i = passes[k].i + 1
       ELSE passes'[k].pc = "recount" /\ passes'[k].i = passes[k].i

\* C6: a failed commit leaves its record in the buffer and neither stops the
\* pass nor keeps the later records from being tried; a record whose commit
\* succeeded is removed; the pass reaches its end only past the last record
\* of its snapshot.
C6_PartialBatch ==
    [][\A k \in 1..Len(passes) :
          /\ PassCommitFail(k) => (offlineSales' = offlineSales /\ GoesOn(k))
          /\ PassDelete(k) =>
                /\ ~(passes[k].snap[passes[k].i].billId \in BillIdsOf(offlineSales'))
                /\ GoesOn(k)
          /\ (/\ Len(passes') >= Len(passes)
              /\ passes[k].pc # "recount"
              /\ passes'[k].pc = "recount") =>
                passes[k].i = Len(passes[k].snap)]_vars

\* A pass of two records has ended its loop: the commit of the first failed
\* and the record is still buffered, the second was committed and removed.
C6_Witness ==
    \E k \in 1..Len(passes) :
        /\ passes[k].pc = "recount"
        /\ Len(passes[k].snap) = 2
        /\ passes[k].okIds = {passes[k].snap[2].billId}
        /\ InBuffer(passes[k].snap[1].billId)
        /\ ~InBuffer(passes[k].snap[2].billId)

\* C7: when a pass ends, the pending count is the number of records then in
\* the buffer, also when sales were saved while the pass ran; after a pass
\* whose commits all succeeded and during which no sale was saved, the buffer
\* is empty and the count is 0.
C7_CountAtPassEnd ==
    [][\A k \in 1..Len(passes) :
          passes' = RemoveAt(passes, k) =>
              /\ pendingSaleCount' = Len(offlineSales')
              /\ ~isSyncing'
              /\ (/\ passes[k].pc = "recount"
                  /\ passes[k].successCount = Len(passes[k].snap)
                  /\ ~passes[k].added) =>
                     (offlineSales' = <<>> /\ pendingSaleCount' = 0)]_vars

\* A pass is about to end; a sale was saved while it ran and the count shown
\* is not the size of the buffer.
C7_Witness ==
    \E k \in 1..Len(passes) :
        /\ passes[k].pc = "recount"
        /\ passes[k].added
        /\ passes[k].successCount > 0
        /\ pendingSaleCount # Len(offlineSales)

\* C8: each buffered record is counted in a success notification exactly
\* once: never more than once, and only after its commit has succeeded.
C8_NotifiedExactlyOnce ==
    \A b \in BillIds : notified[b] <= 1 /\ (notified[b] = 1 => remote[b] >= 1)

\* C9: when the local store fails the save of an offline sale, a failure
\* notification is shown, the success dialog does not stay open, and neither
\* the 'Sale Saved Offline' notification nor an increment of the pending
\* count happens.
C9_SaveFailureSurfaced ==
    [][\A k \in 1..Len(sales) :
          (sales[k].pc = "save" /\ ~storageUp /\ SaleSaveDone(k)) =>
              /\ toast' \notin {"none", "Sale Saved Offline", "Sync Complete"}
              /\ ~dialogs'.success
              /\ pendingSaleCount' = pendingSaleCount]_vars

\* C10: when the remote commit of an online checkout fails, the failure is
\* shown, the success dialog is not left open, and the cart and the customer
\* are those of the checkout, whatever the user did while the commit was in
\* flight.
C10_FailureKeepsSale ==
    [][\A k \in 1..Len(sales) :
          SaleCommitFail(k) =>
              /\ toast' = "Transaction Failed"
              /\ ~dialogs'.success
              /\ cart' = sales[k].bill.items
              /\ customer' = sales[k].bill.customer]_vars
\* C11: no sale is silently dropped.  Step by step: a checkout that ends
\* leaves its sale in the buffer or committed remotely, or shows its failure;
\* a sale leaves the buffer only committed; nothing committed is taken back.
C11_NoSilentDrop ==
    [][/\ \A k \in 1..Len(sales) :
             sales' = RemoveAt(sales, k) =>
                 \/ sales[k].bill.billId \in BillIdsOf(offlineSales')
                 \/ remote'[sales[k].bill.billId] >= 1
                 \/ toast' = "Transaction Failed"
       /\ \A b \in BillIds :
             /\ (InBuffer(b) /\ ~(b \in BillIdsOf(offlineSales'))) => remote'[b] >= 1
             /\ remote'[b] >= remote[b]]_vars
\* C12: a checkout made while the offline flag is set goes to the buffer and
\* makes no remote call; a checkout made while the flag is clear calls the
\* remote commit and never writes the buffer.
C12_CheckoutRouting ==
    [][/\ checkouts' = checkouts + 1 =>
             /\ Len(sales') = Len(sales) + 1
             /\ sales'[Len(sales')].pc = (IF isOffline THEN "save" ELSE "commit")
             /\ UNCHANGED <<offlineSales, remote>>
       /\ \A k \in 1..Len(sales) :
             sales' = RemoveAt(sales, k) =>
                 IF sales[k].pc = "save"
                 THEN remote' = remote
                 ELSE offlineSales' = offlineSales]_vars

\* One sale has been committed directly and another one is buffered.
C12_Witness ==
    \E b1, b2 \in BillIds :
        /\ passes = <<>> /\ sales = <<>>
        /\ remote[b1] >= 1 /\ notified[b1] = 0
        /\ InBuffer(b2) /\ remote[b2] = 0
\* C13: a stock decrement that fails does not make the commit fail: the
\* commit call of a pass resolves with the row inserted whatever the stock
\* decrements did, and a record whose commit logged a stock warning keeps its
\* row, is removed from the buffer and is counted as synced.
C13_StockWarningKeepsCommit ==
    [][\A k \in 1..Len(passes) :
          LET b == passes[k].snap[passes[k].i].billId IN
          /\ PassCommitOk(k) => (passes'[k].pc = "delete" /\ remote'[b] >= 1)
          /\ passes[k].warn =>
                /\ passes[k].pc = "delete"
                /\ remote[b] >= 1
                /\ remote'[b] >= remote[b]
                /\ PassDelete(k) =>
                      /\ ~(b \in BillIdsOf(offlineSales'))
                      /\ b \in passes'[k].okIds
                      /\ passes'[k].successCount = passes[k].successCount + 1]_vars

\* The commit of the record in hand has logged a stock warning: the row is in
\* the remote table and the record is about to be removed from the buffer.
C13_Witness ==
    \E k \in 1..Len(passes) :
        /\ passes[k].warn
        /\ passes[k].pc = "delete"
        /\ InBuffer(passes[k].snap[passes[k].i].billId)
        /\ remote[passes[k].snap[passes[k].i].billId] >= 1
\* A bill that proceedToPayment would have let through (Sales.tsx:229-237).
Billable(bill) == bill.items # <<>> /\ bill.customer.phone # ""

\* C14: no transaction is created, saved or sent, with an empty customer
\* phone or an empty item list: every bill handed by completeSale to the
\* buffer or to the remote commit, and every buffered record, has a line and
\* a phone.
C14_NoEmptyTransaction ==
    /\ \A k \in 1..Len(sales) : Billable(sales[k].bill)
    /\ \A k \in 1..Len(offlineSales) : Billable(offlineSales[k])
\* C15: every transaction has a billId, and no two runs of completeSale carry
\* the same billId: the billId of a run is not empty and no earlier run has
\* carried it.
C15_FreshBillId ==
    [][checkouts' = checkouts + 1 =>
          /\ paymentBillId # 0
          /\ ~(paymentBillId \in carried)]_vars
\* C16: remove(billId) is idempotent, and removing an id that is absent is a
\* no-op without error: on every buffer the program reaches a second remove
\* changes nothing and a remove of an absent id leaves the buffer as it is,
\* and a pass that deletes a record already deleted leaves the buffer alone
\* and goes on.
C16_RemoveIdempotent ==
    [][/\ \A id \in BillIds :
             /\ Remove(Remove(offlineSales, id), id) = Remove(offlineSales, id)
             /\ ~(id \in BillIdsOf(Remove(offlineSales, id)))
             /\ ~InBuffer(id) => Remove(offlineSales, id) = offlineSales
       /\ \A k \in 1..Len(passes) :
             (PassDelete(k) /\ ~InBuffer(passes[k].snap[passes[k].i].billId)) =>
                 (offlineSales' = offlineSales /\ GoesOn(k))]_vars

\* Two passes have each deleted the record of the same billId, and another
\* record is in the buffer.
C16_Witness ==
    \E b \in BillIds :
        /\ Len(passes) = 2
        /\ b \in passes[1].okIds
        /\ b \in passes[2].okIds
        /\ ~InBuffer(b)
        /\ offlineSales # <<>>
StrictPages == {PageOf(p) : p \in StrictRoutes}
StrictAdmin(p) == p.role = "admin" /\ p.is_staff # TRUE

\* C18: the Expenses, Reports and Advanced Analytics pages are rendered only
\* for a user whose profile has role 'admin' and is not staff, and a staff
\* user or a customer who opens one of these routes is redirected to the
\* dashboard: a render shows one of the pages only with the profile of a
\* non-staff admin, which is the signed-in user's own row; with the profile
\* of a staff member or a customer it answers these routes by a redirect to
\* the dashboard, and for such a user it shows the loader or redirects.
C18_StrictAdminPages ==
    [][AuthRender =>
          /\ view' \in StrictPages =>
                /\ StrictAdmin(profile)
                /\ profile = Profiles[profile.id]
                /\ user # 0 => profile.id = user
          /\ (path \in StrictRoutes /\ ~loading /\ ~StrictAdmin(profile)) =>
                (view' = "Navigate" /\ path' = "/dashboard")
          /\ (path \in StrictRoutes /\ user # 0 /\ ~StrictAdmin(Profiles[user])) =>
                view' \in {"loader", "Navigate"}]_vars

\* The administrator, signed in and with the profile loaded, is shown the
\* Reports page.
C18_Witness ==
    /\ view = "Reports"
    /\ user = 1
    /\ storedSession = 1
    /\ profile = Profiles[1]
    /\ ~authStale
\* C19: a sync pass starts only on a transition from offline to online or
\* at startup while online; the end of a pass, a re-render or an offline event
\* never starts one.
C19_PassStartsOnTrigger ==
    [][Len(passes') > Len(passes) =>
          \/ ~online /\ online'
          \/ ~mounted /\ mounted' /\ online]_vars
\* The oldest sync pass in flight ends.
OldestPassEnds ==
    /\ passes # <<>>
    /\ passes' = Tail(passes)

\* C20: every sync pass that starts ends and clears the in-flight flag, after
\* the last record of its snapshot has been attempted, whatever number of
\* commits failed, and also when the snapshot is empty or the buffer cannot
\* be read: a pass leaves only with the flag cleared, past the last record of
\* its snapshot or on an empty read; and either no pass is in flight
\* infinitely often or the oldest pass in flight ends infinitely often, so
\* that no pass stays in flight for ever.
C20_PassReturnsToIdle ==
    /\ [][\A k \in 1..Len(passes) :
             (Len(passes') < Len(passes) /\ passes' = RemoveAt(passes, k)) =>
                 /\ isSyncing' = FALSE
                 /\ \/ /\ passes[k].pc = "recount"
                       /\ passes[k].snap # <<>>
                       /\ passes[k].i = Len(passes[k].snap)
                    \/ /\ passes[k].pc = "list"
                       /\ getOfflineSales = <<>>]_vars
    /\ \/ []<>(passes = <<>>)
       \/ []<><<OldestPassEnds>>_vars

\* A pass has attempted the one record of its snapshot, the commit failed,
\* and the store has become unavailable before its closing read.
C20_Witness ==
    \E k \in 1..Len(passes) :
        /\ passes[k].pc = "recount"
        /\ passes[k].snap # <<>>
        /\ passes[k].okIds = {}
        /\ ~storageUp
        /\ isSyncing
\* The records a buffer holds.
RecordsOf(buf) == {buf[j] : j \in 1..Len(buf)}

\* C21: a sync pass attempts exactly the records that were in the buffer when
\* it started, and a sale saved while the pass is running is not attempted
\* by it and stays in the buffer: the snapshot of a pass is the buffer as its
\* opening read finds it and never changes afterwards, the pass removes from
\* the buffer nothing but the snapshot record it has committed, and its
\* other steps leave the buffer alone.
C21_PassAttemptsSnapshot ==
    [][\A k \in 1..Len(passes) :
          /\ (PassList(k) /\ Len(passes') = Len(passes)) =>
                passes'[k].snap = getOfflineSales
          /\ (passes[k].pc # "list" /\ Len(passes') = Len(passes)) =>
                passes'[k].snap = passes[k].snap
          /\ PassDelete(k) =>
                \A r \in RecordsOf(offlineSales) :
                    r # passes[k].snap[passes[k].i] => r \in RecordsOf(offlineSales')
          /\ (PassList(k) \/ PassCommitOk(k) \/ PassCommitFail(k) \/ PassRecount(k)) =>
                offlineSales' = offlineSales]_vars
\* The passes whose remote commit is in flight.
Committing == {k \in 1..Len(passes) : passes[k].pc = "commit"}

\* C22: within a sync pass the records are committed one after another in
\* the order of the snapshot, the commit of a record being called only after
\* the commit of the one before has failed or its removal has finished, and
\* the controller never has two remote commits in flight.
C22_SequentialCommits ==
    [][/\ \A k \in 1..Len(passes) :
             (Len(passes') = Len(passes) /\ passes'[k].i # passes[k].i) =>
                 /\ passes'[k].i = passes[k].i + 1
                 /\ passes'[k].pc = "commit"
                 /\ \/ passes[k].pc = "list"
                    \/ PassCommitFail(k)
                    \/ PassDelete(k)
       /\ Cardinality(Committing) <= 1]_vars
\* C23: a sync pass is never cancelled: a change of connectivity leaves
\* every pass in flight where it is, a commit that ends while the browser is
\* offline leaves its record in the buffer and the pass goes on to the next
\* record of its snapshot, and a pass ends only past the last record of its
\* snapshot.
C23_NeverCancelled ==
    [][\A k \in 1..Len(passes) :
          /\ online' # online =>
                /\ Len(passes') >= Len(passes)
                /\ passes'[k] = passes[k]
          /\ ((PassCommitOk(k) \/ PassCommitFail(k)) /\ ~online) =>
                /\ offlineSales' = offlineSales
                /\ GoesOn(k)
          /\ (Len(passes') < Len(passes) /\ passes' = RemoveAt(passes, k)) =>
                passes[k].i = Len(passes[k].snap)]_vars

\* The browser is offline and a pass of two records is still running: the
\* commit of the first record has failed, the record is still buffered, and
\* the commit of the second has been called.
C23_Witness ==
    \E k \in 1..Len(passes) :
        /\ ~online
        /\ isOffline
        /\ Len(passes[k].snap) = 2
        /\ passes[k].pc = "commit"
        /\ passes[k].i = 2
        /\ InBuffer(passes[k].snap[1].billId)
        /\ remote[passes[k].snap[1].billId] = 0
\* C24: a buffered transaction is not changed between its save and its
\* remote commit: no step replaces a buffered record by another record of
\* the same billId, and the record a pass holds in its snapshot for a billId
\* that is still buffered is the buffered record.
C24_BufferedPayloadFixed ==
    [][/\ \A r \in RecordsOf(offlineSales) :
             \/ r \in RecordsOf(offlineSales')
             \/ ~(r.billId \in BillIdsOf(offlineSales'))
       /\ \A k \in 1..Len(passes) : \A j \in 1..Len(passes[k].snap) :
             (j >= passes[k].i /\ passes[k].pc = "commit" /\ InBuffer(passes[k].snap[j].billId)) =>
                 passes[k].snap[j] \in RecordsOf(offlineSales)]_vars
\* C25: the number reported by the 'Sync Complete' notification of a pass
\* is the number of records whose remote commit succeeded in that pass, and
\* a pass in which no commit succeeded shows no such notification: when the
\* loop of a pass ends, the notification is shown exactly when a commit of
\* the pass has succeeded, and it reports their number.
C25_SyncCompleteCount ==
    [][\A k \in 1..Len(passes) :
          (/\ Len(passes') = Len(passes)
           /\ passes[k].pc # "recount"
           /\ passes'[k].pc = "recount") =>
              /\ passes'[k].reported = passes'[k].committed
              /\ (toast' = "Sync Complete") = (passes'[k].committed > 0)]_vars

\* The loop of a pass of two records has ended: one commit failed, one
\* succeeded, and the notification reports one synced sale.
C25_Witness ==
    \E k \in 1..Len(passes) :
        /\ passes[k].pc = "recount"
        /\ Len(passes[k].snap) = 2
        /\ passes[k].committed = 1
        /\ passes[k].reported = 1
        /\ toast = "Sync Complete"
\* The role of the signed-in user is still being determined: no profile of
\* the user is at hand and the profile effect has yet to run for the user or
\* the fetch it started is in flight.
RoleUndetermined ==
    /\ user # 0
    /\ profile.id # user
    /\ userChanged \/ fetching = user

\* C26: a route guard never redirects while the role of the user is still
\* being determined: a render made on an admin-only route for a signed-in
\* user whose profile has not been fetched yet does not redirect.
C26_NoRedirectWhileLoading ==
    [][(AuthRender /\ path \in StrictRoutes \cup {"/inventory"} /\ RoleUndetermined) =>
          view' # "Navigate"]_vars

\* C27: whenever no sync pass and no checkout is in progress, the
\* pending-count indicator on the screen equals the number of records in the
\* offline buffer.
C27_PendingCountMatchesBuffer ==
    (passes = <<>> /\ sales = <<>> /\ Rendered) =>
        pendingSaleCount = Len(offlineSales)

\* ------------------------------------------------------ the cart alone
\* The page offline with the inventory InventoryCart.
InitCart ==
    /\ online = FALSE
    /\ storageUp = TRUE
    /\ offlineSales = <<>>
    /\ remote = [b \in BillIds |-> 0]
    /\ inventoryItems = InventoryCart
    /\ clock = 0
    /\ cart = <<>>
    /\ customer = NoCustomer
    /\ dialogs = NoDialogs
    /\ completedBill = NoBill
    /\ paymentBillId = 0
    /\ isOffline = TRUE
    /\ isSyncing = FALSE
    /\ pendingSaleCount = 0
    /\ mounted = FALSE
    /\ lsnIsSyncing = FALSE
    /\ checks = 0
    /\ passes = <<>>
    /\ sales = <<>>
    /\ stale = FALSE
    /\ toast = "none"
    /\ notified = [b \in BillIds |-> 0]
    /\ checkouts = 0
    /\ carried = {}
    /\ stockCalls = <<>>
    /\ storedSession = 1
    /\ user = 1
    /\ profile = Profiles[1]
    /\ loading = FALSE
    /\ getSessionPending = FALSE
    /\ userChanged = FALSE
    /\ fetching = 0
    /\ path = "/sales"
    /\ view = "Sales"
    /\ authMounted = TRUE
    /\ authStale = FALSE

\* Sequences of addToCart and updateCartQuantity, with the renders between.
NextCart ==
    \/ Render
    \/ InitialCheckDone
    \/ \E itemId \in CartItemIds : addToCartCall(itemId)
    \/ \E itemId \in CartItemIds, q \in 0..(CartStock + 2) : updateCartQuantity(itemId, q)

SpecCart == InitCart /\ [][NextCart]_vars

\* The item of the inventory with the given id.
ItemOf(itemId) == CHOOSE it \in {inventoryItems[n] : n \in 1..Len(inventoryItems)} : it.id = itemId

CartWithinStock ==
    /\ \A j, k \in 1..Len(cart) : cart[j].id = cart[k].id => j = k
    /\ \A j \in 1..Len(cart) :
        /\ cart[j].id \in {inventoryItems[n].id : n \in 1..Len(inventoryItems)}
        /\ ItemOf(cart[j].id).is_available
        /\ 1 <= cart[j].cart_quantity
        /\ cart[j].cart_quantity <= ItemOf(cart[j].id).quantity

StockUserStep ==
    \/ \E itemId \in CartItemIds : addToCart(itemId)
    \/ setCustomer("98765")
    \/ proceedToPayment
    \/ \E m \in Methods : completeSaleUpTo(m, MaxSales, LiveCheckouts)

NextStock ==
    \/ Render /\ Len(passes') <= DeepPasses
    \/ InitialCheckDone
    \/ GoOnline /\ Len(passes') <= DeepPasses
    \/ GoOffline
    \/ SyncStep
    \/ SaleStep
    \/ StockUserStep

SpecStock == InitCart /\ [][NextStock]_vars

\* The decrement_stock calls a recorded bill is due: for every line of the
\* bill one call with the id and the quantity of the line.
OncePerLine(bill) ==
    /\ Len(stockCalls') = Len(bill.items)
    /\ \A j \in 1..Len(bill.items) :
        /\ stockCalls'[j].item_id = bill.items[j].id
        /\ stockCalls'[j].decrement_quantity = bill.items[j].cart_quantity

\* C29: stock is decremented only for recorded sales: a step in which the
\* insert of a commit fails, and any step that is not a commit, makes no
\* decrement_stock call, and a step in which the insert succeeds makes
\* exactly one call per line of the bill, with the quantity of the line.
C29_StockOnlyForRecordedSales ==
    [][/\ \A k \in 1..MaxPasses :
            /\ PassCommitFail(k) => stockCalls' = <<>>
            /\ PassCommitOk(k) => OncePerLine(passes[k].snap[passes[k].i])
       /\ \A k \in 1..MaxSales :
            /\ SaleCommitFail(k) => stockCalls' = <<>>
            /\ SaleCommitOk(k) => OncePerLine(sales[k].bill)
       /\ stockCalls' # <<>> =>
            \/ \E k \in 1..MaxPasses : PassCommitOk(k)
            \/ \E k \in 1..MaxSales : SaleCommitOk(k)]_vars

\* The commit of a bill of two lines, one of them of quantity 2, has made
\* its two calls.
C29_Witness ==
    /\ Len(stockCalls) = 2
    /\ \E j \in 1..2 : stockCalls[j].decrement_quantity = 2
    /\ \E b \in BillIds : remote[b] = 1
====
